---- MODULE Spec2Model ----
(***************************************************************************)
(* Model of the spatial ATAC-seq workflow of src/wf/__init__.py: the       *)
(* run-id rule of the workflow metadata, the three tasks filter_task,      *)
(* process_bc_task and cellranger_task, the external tools they start with *)
(* subprocess.run, the local scratch file system and the remote latch://   *)
(* namespace the returned LatchFile / LatchDir descriptors publish to.     *)
(*                                                                         *)
(* Strings are sequences of tokens: a run id is a sequence of characters,  *)
(* the literal pieces of an f-string are one token each.  A path is a      *)
(* sequence of components, each component a token sequence.                *)
(***************************************************************************)
EXTENDS Integers, Sequences, FiniteSets, TLC

\* ------------------------------------------------------------------ bounds

\* number of workflow executions on the same machine / remote namespace
MaxRuns == 2

\* ------------------------------------------------------- program constants

\* \d{5} of the run-id rule
IdDigits == 5
\* restrictleft= of the two bbduk passes
RestrictLeft1 == 103
RestrictLeft2 == 65
\* hdist= of both passes
HDist == 3
\* threads= of the two passes
Threads1 == 86
Threads2 == 46
\* cellranger-atac resources
LocalCores == 96
LocalMem == 192
ForceCells == 2500

Linker1 == "GTGGCCGATGTTTCGCATCGGCGTACGACT"
Linker2 == "ATCCACGTGCTTGAGAGGCCAGAGCATTCG"

\* --------------------------------------------------------------- Species

\* the two packages exchanged
Species_swapped == [mouse |-> "refdata-cellranger-arc-GRCh38-2020-A-2.0.0",
                    human |-> "refdata-cellranger-arc-mm10-2020-A-2.0.0"]

Species == [mouse |-> "refdata-cellranger-arc-mm10-2020-A-2.0.0",
            human |-> "refdata-cellranger-arc-GRCh38-2020-A-2.0.0"]

SpeciesNames == DOMAIN Species

\* ----------------------------------------------------- the run-id rule

Digit == {"0", "1", "2", "3", "4", "5", "6", "7", "8", "9"}

Lit(c) == [kind |-> "lit", c |-> c]
DigitClass == [kind |-> "digit", c |-> ""]

RECURSIVE Rep(_, _)
Rep(item, n) == IF n = 0 THEN <<>> ELSE <<item>> \o Rep(item, n - 1)

\* the rule with \d where the literal N stands
LatchRuleRegex_digitForN ==
    <<Lit("D")>> \o Rep(DigitClass, IdDigits) \o <<Lit("_"), DigitClass, Lit("G")>>
        \o Rep(DigitClass, IdDigits)

\* ^(D\d{5}_NG\d{5})$ as a sequence of one-character items
LatchRuleRegex ==
    <<Lit("D")>> \o Rep(DigitClass, IdDigits) \o <<Lit("_"), Lit("N"), Lit("G")>>
        \o Rep(DigitClass, IdDigits)

ItemMatches(item, ch) ==
    IF item.kind = "digit" THEN ch \in Digit ELSE ch = item.c

\* anchored match of the whole string against the item sequence
RECURSIVE FullMatch(_, _)
FullMatch(pat, s) ==
    IF pat = <<>> THEN s = <<>>
    ELSE /\ s # <<>>
         /\ ItemMatches(Head(pat), Head(s))
         /\ FullMatch(Tail(pat), Tail(s))

RuleAccepts(id) == FullMatch(LatchRuleRegex, id)

\* ------------------------------------------------------------- the inputs

\* the run id of the "Test Data" launch plan
TestDataRunId == <<"D", "0", "1", "0", "3", "3", "_", "N", "G", "0", "1", "6", "8", "1">>
OtherRunId == <<"D", "2", "4", "5", "7", "9", "_", "N", "G", "8", "6", "4", "2", "9">>

BaseIds == {TestDataRunId, OtherRunId}

SubstChars == {"x", "_", "G"}

IdPositions == 1..Len(TestDataRunId)

Subst(s, i, c) == [j \in 1..Len(s) |-> IF j = i THEN c ELSE s[j]]

\* run ids a user may type: the two well-formed ones, every one-character
\* substitution by a non-digit, a digit in place of each literal, every proper
\* prefix and every one-character extension
RunIdInputs ==
    BaseIds
    \cup {Subst(b, i, c) : b \in BaseIds, i \in IdPositions, c \in SubstChars}
    \cup {Subst(b, i, "0") : b \in BaseIds, i \in {1, 7, 8, 9}}
    \cup {SubSeq(b, 1, n) : b \in BaseIds, n \in 0..(Len(TestDataRunId) - 1)}
    \cup {b \o <<c>> : b \in BaseIds, c \in {"0", "_", "\n"}}
    \cup {<<"x">> \o b : b \in BaseIds}

\* a read pair is described by what the two passes look for in read 2:
\* <<linker 1 within the first 103 bases, linker 2 within the first 65 bases>>
Pairs == BOOLEAN \X BOOLEAN

\* the read pairs of a launch: none, one kind of pair only, or every kind
ReadInputs == {{}} \cup {{p} : p \in Pairs} \cup {Pairs}

ExitCodes == {0, 1}

\* ------------------------------------------------------------------ paths

Cwd == << <<"root">> >>

\* Path(...).resolve()
Resolve(rel) == Cwd \o rel

IsPrefix(p, s) == Len(p) <= Len(s) /\ SubSeq(s, 1, Len(p)) = p

filtered_r1_l1(id) == Resolve(<< id \o <<"_linker1_R1.fastq.gz">> >>)
filtered_r2_l1(id) == Resolve(<< id \o <<"_linker1_R2.fastq.gz">> >>)
\* the statistics file named without the run id
stats_l1_fixed(id) == << <<"root">>, <<"linker1_stats.txt">> >>
stats_l1(id) == << <<"root">>, id \o <<"_linker1_stats.txt">> >>
filtered_r1_l2(id) == Resolve(<< id \o <<"_linker2_R1.fastq.gz">> >>)
filtered_r2_l2(id) == Resolve(<< id \o <<"_linker2_R2.fastq.gz">> >>)
stats_l2(id) == << <<"root">>, id \o <<"_linker2_stats.txt">> >>

outdir == Resolve(<< <<"cellranger_inputs">> >>)
new_r2(id) == outdir \o << id \o <<"_S1_L001_R2_001.fastq">> >>
r3(id) == outdir \o << id \o <<"_S1_L001_R3_001.fastq">> >>

local_out(id) == Resolve(<< id, <<"outs">> >>)

\* latch:///runs/{run_id}/...
RemoteR1(id) ==
    << <<"runs">>, id, <<"cellranger_inputs">>, id \o <<"_S1_L001_R1_001.fastq.gz">> >>
\* the read 2 published without the run's directory
RemoteR2_flat(id) ==
    << <<"runs">>, <<"preprocessing">>, id \o <<"_linker2_R2.fastq.gz">> >>
RemoteR2(id) ==
    << <<"runs">>, id, <<"preprocessing">>, id \o <<"_linker2_R2.fastq.gz">> >>
RemoteInputs(id) == << <<"runs">>, id, <<"cellranger_inputs">> >>
RemoteOuts(id) == << <<"runs">>, id, <<"outs">> >>

\* the launch parameters r1, r2: files the user already holds in the namespace
InputR1 == [local |-> << <<"tmp">>, <<"r1.fastq.gz">> >>,
            remote |-> << <<"BASESPACE_IMPORTS">>, <<"R1_001.fastq.gz">> >>]
InputR2 == [local |-> << <<"tmp">>, <<"r2.fastq.gz">> >>,
            remote |-> << <<"BASESPACE_IMPORTS">>, <<"R2_001.fastq.gz">> >>]

NoDesc == [local |-> <<>>, remote |-> <<>>]

\* ----------------------------------------------------------- file systems

File(reads) == [kind |-> "file", reads |-> reads]
Dir == [kind |-> "dir", reads |-> {}]

EmptyFS == [p \in {} |-> Dir]

Put(f, p, c) == [q \in DOMAIN f \cup {p} |-> IF q = p THEN c ELSE f[q]]

\* the entries directly inside directory d
Children(f, d) == {p \in DOMAIN f : Len(p) = Len(d) + 1 /\ IsPrefix(d, p)}

Basename(p) == p[Len(p)]

\* remote files directly inside the slot of a directory descriptor, by local name
Downloaded(rem, desc) == {desc.local \o <<Basename(p)>> : p \in Children(rem, desc.remote)}
RemoteOf(rem, desc, q) == CHOOSE p \in Children(rem, desc.remote) : Basename(p) = Basename(q)

\* LatchFile.local_path: the remote file, when there is one, is copied to the
\* descriptor's local path
Materialize(fsys, rem, desc) ==
    IF desc.remote \in DOMAIN rem THEN Put(fsys, desc.local, rem[desc.remote]) ELSE fsys

\* LatchDir.local_path: every file of the remote slot is copied into the local directory
MaterializeDir(fsys, rem, desc) ==
    IF Children(rem, desc.remote) = {} THEN fsys
    ELSE [q \in DOMAIN fsys \cup {desc.local} \cup Downloaded(rem, desc) |->
            IF q \in Downloaded(rem, desc) THEN rem[RemoteOf(rem, desc, q)]
            ELSE IF q = desc.local THEN Dir
            ELSE fsys[q]]

\* a returned LatchFile(local, remote): the local file, when it exists, is stored
\* at the remote path
PublishFile(rem, fsys, desc) ==
    IF desc.local \in DOMAIN fsys THEN Put(rem, desc.remote, fsys[desc.local]) ELSE rem

Uploaded(fsys, desc) == {desc.remote \o <<Basename(p)>> : p \in Children(fsys, desc.local)}
LocalOf(fsys, desc, q) == CHOOSE p \in Children(fsys, desc.local) : Basename(p) = Basename(q)

\* a returned LatchDir(local, remote): every file of the local directory is stored
\* under the remote slot; what the slot already holds under other names stays
PublishDir(rem, fsys, desc) ==
    IF desc.local \notin DOMAIN fsys THEN rem
    ELSE [q \in DOMAIN rem \cup {desc.remote} \cup Uploaded(fsys, desc) |->
            IF q \in Uploaded(fsys, desc) THEN fsys[LocalOf(fsys, desc, q)]
            ELSE IF q = desc.remote THEN Dir
            ELSE rem[q]]

\* -------------------------------------------------------- python semantics

\* subprocess.run(cmd, check=True)
SubprocessRaises_check(code) == code # 0

\* subprocess.run(cmd) is called without check=True: no exit status raises
SubprocessRaises(code) == FALSE

\* os.makedirs(path, exist_ok=True)
MkdirRaises_exist_ok(exists) == FALSE

\* os.mkdir(path) raises FileExistsError when the path exists
MkdirRaises(exists) == exists

\* names bound where cellranger_task calls subprocess.run
CellrangerLocals == {"input_dir", "run_id", "species", "local_out", "_cr_command"}
ModuleGlobals ==
    {"Enum", "os", "Path", "subprocess", "large_task", "workflow", "LaunchPlan",
     "LatchAuthor", "LatchDir", "LatchFile", "LatchMetadata", "LatchParameter",
     "LatchRule", "Species", "filter_task", "process_bc_task", "cellranger_task",
     "metadata", "spatial_atac"}
\* the name cellranger_task hands to subprocess.run
RunArgName == "cr_command"
NameBound(n) == n \in CellrangerLocals \cup ModuleGlobals

\* ------------------------------------------------------------ the workflow

\* the splitter scheduled before the filter
StageOrder_splitter_first == <<"process_bc_task", "filter_task", "cellranger_task">>

\* the body of spatial_atac: each task consumes the result of the one before
StageOrder == <<"filter_task", "process_bc_task", "cellranger_task">>

StageAfter(s) ==
    IF \E i \in 1..(Len(StageOrder) - 1) : StageOrder[i] = s
    THEN StageOrder[(CHOOSE i \in 1..(Len(StageOrder) - 1) : StageOrder[i] = s) + 1]
    ELSE "done"

\* the inputs of the second bbduk pass
Bbduk2In1(id) == filtered_r1_l1(id)
\* pass 2 reading the read 2 of the launch
Bbduk2In2_launch(id) == InputR2.local
Bbduk2In2(id) == filtered_r2_l1(id)

\* what a bbduk pass keeps: the pairs whose read 2 carries the literal
Match(literal, pair) ==
    IF literal = Linker1 THEN pair[1]
    ELSE IF literal = Linker2 THEN pair[2]
    ELSE FALSE

Keep(literal, reads) == {p \in reads : Match(literal, p)}

VARIABLES
    pc,          \* position of the workflow execution
    runs,        \* number of the current execution
    run_id,      \* launch parameter run_id
    species,     \* launch parameter species
    reads,       \* the read pairs of the launch parameters r1, r2
    fs,          \* local scratch file system: path -> File / Dir
    remote,      \* remote namespace: path -> File / Dir
    log,         \* start / exit events of the external tools, this execution
    exit,        \* tool -> exit status, for the tools that have exited
    cmd,         \* tool -> the command line built for it
    filtered_r1, \* results of filter_task
    filtered_r2,
    input_dir,   \* result of process_bc_task
    result,      \* result of cellranger_task
    failure,     \* exception that ended the execution, or "none"
    published,   \* remote paths published by this execution
    artifacts,   \* [run, id, place, kind, path] of every artifact of every execution
    launched     \* the run ids of the executions that passed entry

vars == <<pc, runs, run_id, species, reads, fs, remote, log, exit, cmd, filtered_r1,
          filtered_r2, input_dir, result, failure, published, artifacts, launched>>

NoCmds == [t \in {} |-> [tool |-> "none"]]
NoExits == [t \in {} |-> 0]

Init ==
    /\ pc = "idle"
    /\ runs = 1
    /\ run_id = <<>>
    /\ species = "human"
    /\ reads = {}
    /\ fs = EmptyFS
    /\ remote = EmptyFS
    /\ log = <<>>
    /\ exit = NoExits
    /\ cmd = NoCmds
    /\ filtered_r1 = NoDesc
    /\ filtered_r2 = NoDesc
    /\ input_dir = NoDesc
    /\ result = NoDesc
    /\ failure = "none"
    /\ published = {}
    /\ artifacts = {}
    /\ launched = <<>>

Event(t, e) == [tool |-> t, ev |-> e]

Artifact(place, kind, path) ==
    [run |-> runs, id |-> run_id, place |-> place, kind |-> kind, path |-> path]

\* the rule of the run_id parameter refuses the launch: no task is scheduled
launch_rejected(id) ==
    /\ pc = "idle"
    /\ ~RuleAccepts(id)
    /\ run_id' = id
    /\ pc' = "rejected"
    /\ UNCHANGED <<runs, species, reads, fs, remote, log, exit, cmd, filtered_r1,
                   filtered_r2, input_dir, result, failure, published, artifacts,
                   launched>>

\* spatial_atac is launched with (r1, r2, run_id, species) and a run id the rule
\* of the run_id parameter accepts
spatial_atac(id, sp, rd) ==
    /\ pc = "idle"
    /\ RuleAccepts(id)
    /\ run_id' = id
    /\ species' = sp
    /\ reads' = rd
    /\ pc' = StageOrder[1]
    /\ remote' = Put(Put(remote, InputR1.remote, File(rd)), InputR2.remote, File(rd))
    /\ launched' = Append(launched, id)
    /\ UNCHANGED <<runs, fs, log, exit, cmd, filtered_r1, filtered_r2, input_dir,
                   result, failure, published, artifacts>>

\* filter_task up to subprocess.run(_bbduk1_cmd)
filter_task_bbduk1 ==
    /\ pc = "filter_task"
    /\ fs' = Materialize(Materialize(fs, remote, InputR1), remote, InputR2)
    /\ cmd' = Put(cmd, "bbduk1",
                  [tool |-> "bbmap/bbduk.sh",
                   in1 |-> InputR1.local, in2 |-> InputR2.local,
                   outm1 |-> filtered_r1_l1(run_id), outm2 |-> filtered_r2_l1(run_id),
                   restrictleft |-> RestrictLeft1, hdist |-> HDist,
                   stats |-> stats_l1(run_id), threads |-> Threads1,
                   literal |-> Linker1])
    /\ log' = Append(log, Event("bbduk1", "start"))
    /\ artifacts' = artifacts \cup
           {Artifact("local", "pass1_r1", filtered_r1_l1(run_id)),
            Artifact("local", "pass1_r2", filtered_r2_l1(run_id)),
            Artifact("local", "pass1_stats", stats_l1(run_id))}
    /\ pc' = "bbduk1"
    /\ UNCHANGED <<runs, run_id, species, reads, remote, exit, filtered_r1, filtered_r2,
                   input_dir, result, failure, published, launched>>

\* what bbduk leaves behind: with status 0 the matched pairs and the statistics,
\* otherwise nothing
BbdukWrites(fsys, c, code) ==
    IF code = 0
    THEN Put(Put(Put(fsys, c.outm1, File(Keep(c.literal, fsys[c.in1].reads))),
                 c.outm2, File(Keep(c.literal, fsys[c.in2].reads))),
             c.stats, File({}))
    ELSE fsys

BbdukCanSucceed(fsys, c) == c.in1 \in DOMAIN fsys /\ c.in2 \in DOMAIN fsys

\* the external process of pass t exits and subprocess.run returns
bbduk_exit(t, code, next) ==
    /\ pc = t
    /\ code = 0 => BbdukCanSucceed(fs, cmd[t])
    /\ fs' = BbdukWrites(fs, cmd[t], code)
    /\ exit' = Put(exit, t, code)
    /\ log' = Append(log, Event(t, "exit"))
    /\ IF SubprocessRaises(code)
       THEN pc' = "failed" /\ failure' = "CalledProcessError"
       ELSE pc' = next /\ failure' = failure
    /\ UNCHANGED <<runs, run_id, species, reads, remote, cmd, filtered_r1, filtered_r2,
                   input_dir, result, published, artifacts, launched>>

bbduk1_exit == \E code \in ExitCodes : bbduk_exit("bbduk1", code, "filter_pass2")

\* filter_task from the first subprocess.run to subprocess.run(_bbduk2_cmd)
filter_task_bbduk2 ==
    /\ pc = "filter_pass2"
    /\ cmd' = Put(cmd, "bbduk2",
                  [tool |-> "bbmap/bbduk.sh",
                   in1 |-> Bbduk2In1(run_id), in2 |-> Bbduk2In2(run_id),
                   outm1 |-> filtered_r1_l2(run_id), outm2 |-> filtered_r2_l2(run_id),
                   restrictleft |-> RestrictLeft2, hdist |-> HDist,
                   stats |-> stats_l2(run_id), threads |-> Threads2,
                   literal |-> Linker2])
    /\ log' = Append(log, Event("bbduk2", "start"))
    /\ artifacts' = artifacts \cup
           {Artifact("local", "pass2_r1", filtered_r1_l2(run_id)),
            Artifact("local", "pass2_r2", filtered_r2_l2(run_id)),
            Artifact("local", "pass2_stats", stats_l2(run_id))}
    /\ pc' = "bbduk2"
    /\ UNCHANGED <<runs, run_id, species, reads, fs, remote, exit, filtered_r1,
                   filtered_r2, input_dir, result, failure, published, launched>>

bbduk2_exit == \E code \in ExitCodes : bbduk_exit("bbduk2", code, "filter_return")

\* the return statement of filter_task
filter_task_return ==
    /\ pc = "filter_return"
    /\ filtered_r1' = [local |-> filtered_r1_l2(run_id), remote |-> RemoteR1(run_id)]
    /\ filtered_r2' = [local |-> filtered_r2_l2(run_id), remote |-> RemoteR2(run_id)]
    /\ remote' = PublishFile(PublishFile(remote, fs, filtered_r1'), fs, filtered_r2')
    /\ published' = published \cup {filtered_r1'.remote, filtered_r2'.remote}
    /\ artifacts' = artifacts \cup
           {Artifact("remote", "filtered_r1", filtered_r1'.remote),
            Artifact("remote", "filtered_r2", filtered_r2'.remote)}
    /\ pc' = StageAfter("filter_task")
    /\ UNCHANGED <<runs, run_id, species, reads, fs, log, exit, cmd, input_dir, result,
                   failure, launched>>

\* process_bc_task up to subprocess.run(_bc_cmd): os.mkdir(outdir) comes first
process_bc_task_begin ==
    /\ pc = "process_bc_task"
    /\ IF MkdirRaises(outdir \in DOMAIN fs)
       THEN /\ failure' = "FileExistsError"
            /\ pc' = "failed"
            /\ UNCHANGED <<fs, cmd, log, artifacts>>
       ELSE /\ fs' = Materialize(Put(fs, outdir, Dir), remote, filtered_r2)
            /\ cmd' = Put(cmd, "bc_process",
                          [tool |-> "python bc_process.py",
                           input |-> filtered_r2.local,
                           output_R2 |-> new_r2(run_id),
                           output_R3 |-> r3(run_id)])
            /\ log' = Append(log, Event("bc_process", "start"))
            /\ artifacts' = artifacts \cup
                   {Artifact("local", "splitter_dir", outdir),
                    Artifact("local", "new_r2", new_r2(run_id)),
                    Artifact("local", "r3", r3(run_id))}
            /\ pc' = "bc_process"
            /\ failure' = failure
    /\ UNCHANGED <<runs, run_id, species, reads, remote, exit, filtered_r1, filtered_r2,
                   input_dir, result, published, launched>>

\* what bc_process.py leaves behind: with status 0 two files with one record per
\* input read, otherwise nothing
SplitterWrites(fsys, c, code) ==
    IF code = 0
    THEN Put(Put(fsys, c.output_R2, File(fsys[c.input].reads)),
             c.output_R3, File(fsys[c.input].reads))
    ELSE fsys

SplitterCanSucceed(fsys, c) ==
    /\ c.input \in DOMAIN fsys
    /\ SubSeq(c.output_R2, 1, Len(c.output_R2) - 1) \in DOMAIN fsys
    /\ SubSeq(c.output_R3, 1, Len(c.output_R3) - 1) \in DOMAIN fsys

\* the external splitter exits and subprocess.run returns
bc_process_exit ==
    \E code \in ExitCodes :
        /\ pc = "bc_process"
        /\ code = 0 => SplitterCanSucceed(fs, cmd["bc_process"])
        /\ fs' = SplitterWrites(fs, cmd["bc_process"], code)
        /\ exit' = Put(exit, "bc_process", code)
        /\ log' = Append(log, Event("bc_process", "exit"))
        /\ IF SubprocessRaises(code)
           THEN pc' = "failed" /\ failure' = "CalledProcessError"
           ELSE pc' = "process_bc_return" /\ failure' = failure
        /\ UNCHANGED <<runs, run_id, species, reads, remote, cmd, filtered_r1,
                       filtered_r2, input_dir, result, published, artifacts, launched>>

\* the return statement of process_bc_task
process_bc_task_return ==
    /\ pc = "process_bc_return"
    /\ input_dir' = [local |-> outdir, remote |-> RemoteInputs(run_id)]
    /\ remote' = PublishDir(remote, fs, input_dir')
    /\ published' = published \cup {input_dir'.remote} \cup Uploaded(fs, input_dir')
    /\ artifacts' = artifacts \cup
           {Artifact("remote", "input_dir", p) :
                p \in {input_dir'.remote} \cup Uploaded(fs, input_dir')}
    /\ pc' = StageAfter("process_bc_task")
    /\ UNCHANGED <<runs, run_id, species, reads, fs, log, exit, cmd, filtered_r1,
                   filtered_r2, result, failure, launched>>

\* what cellranger-atac count leaves behind: with status 0 its <id>/outs directory
CountWrites(fsys, c, code) ==
    IF code = 0 THEN Put(fsys, Resolve(<<c.id, <<"outs">> >>), Dir) ELSE fsys

\* cellranger_task: the command is built, then subprocess.run is handed RunArgName
cellranger_task ==
    \E code \in ExitCodes :
        LET fs1 == MaterializeDir(fs, remote, input_dir)
            c == [tool |-> "cellranger-atac-2.1.0/cellranger-atac count",
                  id |-> run_id,
                  reference |-> Species[species],
                  fastqs |-> input_dir.local,
                  localcores |-> LocalCores,
                  localmem |-> LocalMem,
                  force_cells |-> ForceCells]
            out == [local |-> local_out(run_id), remote |-> RemoteOuts(run_id)]
        IN  /\ pc = "cellranger_task"
            /\ cmd' = Put(cmd, "cellranger", c)
            /\ artifacts' = artifacts \cup {Artifact("local", "local_out", out.local)}
            /\ IF NameBound(RunArgName)
               THEN /\ code = 0 => c.fastqs \in DOMAIN fs1
                    /\ fs' = CountWrites(fs1, c, code)
                    /\ exit' = Put(exit, "cellranger", code)
                    /\ log' = log \o <<Event("cellranger", "start"),
                                        Event("cellranger", "exit")>>
                    /\ result' = out
                    /\ remote' = PublishDir(remote, fs', out)
                    /\ published' = published \cup {out.remote}
                    /\ pc' = StageAfter("cellranger_task")
                    /\ failure' = failure
               ELSE /\ code = 0
                    /\ fs' = fs1
                    /\ failure' = "NameError"
                    /\ pc' = "failed"
                    /\ UNCHANGED <<exit, log, result, remote, published>>
            /\ UNCHANGED <<runs, run_id, species, reads, filtered_r1, filtered_r2,
                           input_dir, launched>>

Terminal == {"done", "failed", "rejected"}

\* the workflow is launched again, in a fresh scratch directory or in the one
\* the execution before left behind; the remote namespace is durable
Relaunch ==
    \E clear \in BOOLEAN :
        /\ pc \in Terminal
        /\ runs < MaxRuns
        /\ runs' = runs + 1
        /\ pc' = "idle"
        /\ fs' = IF clear THEN EmptyFS ELSE fs
        /\ run_id' = <<>>
        /\ species' = "human"
        /\ reads' = {}
        /\ log' = <<>>
        /\ exit' = NoExits
        /\ cmd' = NoCmds
        /\ filtered_r1' = NoDesc
        /\ filtered_r2' = NoDesc
        /\ input_dir' = NoDesc
        /\ result' = NoDesc
        /\ failure' = "none"
        /\ published' = {}
        /\ UNCHANGED <<remote, artifacts, launched>>

\* the typed run ids, split once by the rule
AcceptedInputs == {id \in RunIdInputs : RuleAccepts(id)}
RefusedInputs == RunIdInputs \ AcceptedInputs

Rejected == \E id \in RefusedInputs : launch_rejected(id)

Launch ==
    \E id \in AcceptedInputs :
        /\ RuleAccepts(id)
        /\ \E sp \in SpeciesNames, rd \in ReadInputs : spatial_atac(id, sp, rd)

Next ==
    \/ Rejected
    \/ Launch
    \/ filter_task_bbduk1
    \/ bbduk1_exit
    \/ filter_task_bbduk2
    \/ bbduk2_exit
    \/ filter_task_return
    \/ process_bc_task_begin
    \/ bc_process_exit
    \/ process_bc_task_return
    \/ cellranger_task
    \/ Relaunch

Spec == Init /\ [][Next]_vars

\* ------------------------------------------------------------------ claims

Exited0(t) == t \in DOMAIN exit /\ exit[t] = 0
Started(t) == \E i \in 1..Len(log) : log[i] = Event(t, "start")

\* the run-id format of the parameter's placeholder, Dxxxxx_NGxxxxx, position by
\* position
RequiredPattern(id) ==
    /\ Len(id) = 14
    /\ id[1] = "D"
    /\ \A i \in 2..6 : id[i] \in Digit
    /\ id[7] = "_" /\ id[8] = "N" /\ id[9] = "G"
    /\ \A i \in 10..14 : id[i] \in Digit

\* C1: a launch with a run id of the required pattern enters the pipeline, a
\* launch with any other run id is rejected, and a rejected launch has run no
\* external process (no command built, no tool started, none exited).
C1_EntryGate ==
    /\ pc = "idle" =>
          \A id \in RunIdInputs :
              /\ (ENABLED spatial_atac(id, "human", {})) <=> RequiredPattern(id)
              /\ (ENABLED launch_rejected(id)) <=> ~RequiredPattern(id)
    /\ pc = "rejected" =>
          ~RequiredPattern(run_id) /\ log = <<>> /\ cmd = NoCmds /\ exit = NoExits
    /\ pc \notin {"idle", "rejected"} => RequiredPattern(run_id)

\* C1 witness: on the same machine one launch has entered the pipeline and a
\* later one, with a run id that has the right length, sits rejected
C1_Witness ==
    /\ pc = "rejected"
    /\ Len(run_id) = 14
    /\ Len(launched) = 1

\* the order the workflow is documented to start and end its external processes
CanonicalLog ==
    <<Event("bbduk1", "start"), Event("bbduk1", "exit"),
      Event("bbduk2", "start"), Event("bbduk2", "exit"),
      Event("bc_process", "start"), Event("bc_process", "exit"),
      Event("cellranger", "start"), Event("cellranger", "exit")>>

\* C2: in every execution the external processes start in the order pass 1,
\* pass 2, splitter, counting tool, each at most once, and each only after the
\* one before has exited: the start / exit events of an execution are always a
\* prefix of pass 1, pass 2, splitter, counting tool, each started then exited.
C2_StrictOrder == IsPrefix(log, CanonicalLog)

\* C2 witness: pass 1, pass 2 and the splitter have each run and exited
C2_Witness == Len(log) = 6 /\ pc = "process_bc_return"

\* C3: once an execution has ended with every external tool it invoked exiting
\* with status 0, the counting tool has been invoked and its <RunID>/outs
\* directory is published at runs/<RunID>/outs/.
C3_EndToEnd ==
    (/\ pc \in {"done", "failed"}
     /\ Exited0("bbduk1") /\ Exited0("bbduk2") /\ Exited0("bc_process")
     /\ \A t \in DOMAIN exit : exit[t] = 0)
    => /\ pc = "done"
       /\ Started("cellranger")
       /\ result = [local |-> local_out(run_id), remote |-> RemoteOuts(run_id)]
       /\ RemoteOuts(run_id) \in DOMAIN remote

Categories == {<<"preprocessing">>, <<"cellranger_inputs">>, <<"outs">>}

RunsForm(p, id) ==
    /\ Len(p) >= 3
    /\ p[1] = <<"runs">>
    /\ p[2] = id
    /\ p[3] \in Categories

\* C4: every remote path an execution publishes, and the remote path of every
\* descriptor a task has returned, has the form runs/<RunID>/<category>/... with
\* the run id of the launch and a category among preprocessing,
\* cellranger_inputs, outs.
C4_PublishedForm ==
    /\ \A p \in published : RunsForm(p, run_id)
    /\ \A d \in {filtered_r1, filtered_r2, input_dir, result} :
           d # NoDesc => RunsForm(d.remote, run_id)

\* C4 witness: the filter stage has published under preprocessing and the
\* splitter stage has published its directory and a file inside it
C4_Witness ==
    /\ RemoteR2(run_id) \in published
    /\ RemoteInputs(run_id) \in published
    /\ \E p \in published : Len(p) = 4 /\ p[3] = <<"cellranger_inputs">>
                              /\ p # RemoteR1(run_id)

\* C5: the splitter stage creates its output directory before it starts the
\* external splitter, and when the directory is already there the stage ends
\* in FileExistsError without starting the splitter.
C5_MkdirFirst ==
    [][(pc = "process_bc_task" /\ pc' # pc) =>
          IF outdir \in DOMAIN fs
          THEN pc' = "failed" /\ failure' = "FileExistsError" /\ log' = log
                 /\ cmd' = cmd /\ fs' = fs
          ELSE outdir \in DOMAIN fs' /\ pc' = "bc_process"
                 /\ log' = Append(log, Event("bc_process", "start"))]_vars

\* C5 witness: the second execution for the same run identifier, in the scratch
\* directory the first left behind, has ended in FileExistsError with the
\* splitter not started
C5_Witness ==
    /\ Len(launched) = 2 /\ launched[1] = launched[2]
    /\ failure = "FileExistsError"
    /\ ~Started("bc_process")
    /\ Started("bbduk2")

ExpectedReference(sp) ==
    IF sp = "mouse" THEN "refdata-cellranger-arc-mm10-2020-A-2.0.0"
    ELSE "refdata-cellranger-arc-GRCh38-2020-A-2.0.0"

\* C6: species is mouse or human and nothing else; mouse resolves to the mm10
\* package and human to the GRCh38 package; the --reference of the counting
\* command is the resolution of the species of the launch.
C6_SpeciesReference ==
    /\ DOMAIN Species = {"mouse", "human"}
    /\ Species["mouse"] = "refdata-cellranger-arc-mm10-2020-A-2.0.0"
    /\ Species["human"] = "refdata-cellranger-arc-GRCh38-2020-A-2.0.0"
    /\ species \in {"mouse", "human"}
    /\ "cellranger" \in DOMAIN cmd =>
           /\ cmd["cellranger"].reference = ExpectedReference(species)
           /\ cmd["cellranger"].id = run_id

\* C6 witness: the counting command has been built for a mouse launch
C6_Witness ==
    /\ "cellranger" \in DOMAIN cmd
    /\ species = "mouse"
    /\ cmd["cellranger"].reference = "refdata-cellranger-arc-mm10-2020-A-2.0.0"

ReadsAt(p) == IF p \in DOMAIN fs THEN fs[p].reads ELSE {}

\* C7: pass 2 reads the two files pass 1 wrote, the stage returns the two files
\* pass 2 wrote, and when both passes have exited with status 0 the reads of
\* each pass-2 output are a subset of the reads of the pass-1 output, which are
\* a subset of the input reads.
C7_Narrowing ==
    /\ "bbduk2" \in DOMAIN cmd =>
           /\ cmd["bbduk2"].in1 = cmd["bbduk1"].outm1
           /\ cmd["bbduk2"].in2 = cmd["bbduk1"].outm2
    /\ filtered_r1 # NoDesc =>
           /\ filtered_r1.local = cmd["bbduk2"].outm1
           /\ filtered_r2.local = cmd["bbduk2"].outm2
    /\ Exited0("bbduk1") =>
           /\ ReadsAt(cmd["bbduk1"].outm1) \subseteq reads
           /\ ReadsAt(cmd["bbduk1"].outm2) \subseteq reads
    /\ (Exited0("bbduk1") /\ Exited0("bbduk2")) =>
           /\ ReadsAt(cmd["bbduk2"].outm1) \subseteq ReadsAt(cmd["bbduk1"].outm1)
           /\ ReadsAt(cmd["bbduk2"].outm2) \subseteq ReadsAt(cmd["bbduk1"].outm2)

\* C7 witness: both passes exited with status 0 and each narrowed the reads
C7_Witness ==
    /\ Exited0("bbduk1") /\ Exited0("bbduk2")
    /\ filtered_r2 # NoDesc
    /\ ReadsAt(filtered_r2.local) # {}
    /\ ReadsAt(filtered_r2.local) # ReadsAt(cmd["bbduk1"].outm2)
    /\ ReadsAt(cmd["bbduk1"].outm2) # reads

\* a path carries the run id when one of its components starts with it
HasRunIdPrefix(path, id) == \E i \in 1..Len(path) : IsPrefix(id, path[i])

Prefixed(as) == \A a \in as : HasRunIdPrefix(a.path, a.id)
Disjoint(as) ==
    \A a, b \in as : (a.id # b.id /\ a.place = b.place) => a.path # b.path

\* C8: every artifact of every execution, local or published, carries the run
\* id as the prefix of a path component, and two executions with different run
\* ids share no artifact path.
C8_AllPrefixed == Prefixed(artifacts) /\ Disjoint(artifacts)

NamedArtifacts == {a \in artifacts : a.kind # "splitter_dir"}

\* C8 as amended: every artifact except the splitter's local output directory
\* carries the run id as the prefix of a path component, and those paths are
\* disjoint between executions with different run ids; the splitter's local
\* output directory is the same path, without the run id, in every execution.
C8_AllButSplitterDir ==
    /\ Prefixed(NamedArtifacts)
    /\ Disjoint(NamedArtifacts)
    /\ \A a \in artifacts \ NamedArtifacts :
           a.path = outdir /\ ~HasRunIdPrefix(a.path, a.id)

\* C8 witness: two executions with different run ids have each got as far as
\* the counting stage
C8_Witness ==
    \E a, b \in artifacts :
        /\ a.id # b.id
        /\ a.kind = "local_out" /\ b.kind = "local_out"
        /\ \E c \in artifacts : c.kind = "input_dir" /\ c.id = b.id /\ Len(c.path) = 4

\* C9: an exit status of bbduk never ends the filter stage: after pass 1 exits,
\* whatever its status, pass 2 is started; after pass 2 exits the stage returns
\* its two descriptors; no execution fails with CalledProcessError.
C9_ExitIgnored ==
    /\ failure # "CalledProcessError"
    /\ "bbduk1" \in DOMAIN exit => (pc = "filter_pass2" \/ Started("bbduk2"))
    /\ "bbduk2" \in DOMAIN exit =>
           \/ pc = "filter_return"
           \/ /\ filtered_r1 = [local |-> filtered_r1_l2(run_id),
                                remote |-> RemoteR1(run_id)]
              /\ filtered_r2 = [local |-> filtered_r2_l2(run_id),
                                remote |-> RemoteR2(run_id)]

\* C9 witness: both passes exited non-zero in a fresh scratch directory, the
\* stage has returned, and the read 2 it describes is nowhere to be found
C9_Witness ==
    /\ runs = 1
    /\ "bbduk2" \in DOMAIN exit /\ exit["bbduk1"] # 0 /\ exit["bbduk2"] # 0
    /\ pc = "process_bc_task"
    /\ filtered_r2.local \notin DOMAIN fs
    /\ filtered_r2.remote \notin DOMAIN remote

====
